---- MODULE Spec2Model ----
(***************************************************************************)
(* State-machine model of the MMN repository:                              *)
(*   src/mnn/model.py                 MNnModel  (discs, axes)              *)
(*   src/MultiMiyamotoNagai/model.py  MMNModel  (models, axes)             *)
(*   src/MultiMiyamotoNagai/fitter.py MMNFitter                            *)
(*                                                                         *)
(* Real numbers are modelled in fixed point.  Lengths produced by a square *)
(* root carry one decimal digit (value * 10).  A floating point result is  *)
(* a record [k, v]: k = "fin" with the scaled integer v, k = "inf" with    *)
(* the sign v, or k = "nan".  Densities are stored in units of             *)
(* 1/(4*pi*1000), potentials and forces in units of 1e-7.                  *)
(***************************************************************************)
EXTENDS Integers, Sequences, FiniteSets, TLC

VARIABLES
    discs,      \* MNnModel.discs : flat sequence a1, b1, M1, a2, b2, M2, ...
    axes,       \* MNnModel.axes  : one axis per disc
    call,       \* the last call made on the object: [op, ...arguments]
    result,     \* what that call did: [outcome, exc, value, printed, calls]
    fitter      \* the MMNFitter object: a record of its attributes

vars == <<discs, axes, call, result, fitter>>

\* ---------------------------------------------------------------- bounds
MaxDiscs == 2

Axes == {"x", "y", "z"}
\* the (axis, a, b, M) given to add_disc: an ordinary disc, a disc with
\* a < 0 < a + b, one with a + b < 0, a flat one (b = 0) and one with b < 0
DiscArgs ==
    {<<"x", 1, 2, 1>>, <<"y", 1, 2, 1>>, <<"z", 1, 2, 1>>,
     <<"x", -1, 2, 2>>, <<"z", -1, 2, 2>>,
     <<"y", -1, 0, 3>>,
     <<"x", 1, 0, 1>>, <<"z", 1, 0, 1>>,
     <<"z", 1, -1, 1>>}
\* the points (x, y, z) the quantities are evaluated at
Points == {<<0, 0, 0>>, <<1, 0, 2>>}

\* ------------------------------------------------------- optional values
None == [some |-> FALSE, v |-> 0]
Some(x) == [some |-> TRUE, v |-> x]

\* ------------------------------------------------- floating point values
Fin(x) == [k |-> "fin", v |-> x]
NaN == [k |-> "nan", v |-> 0]
Inf(s) == [k |-> "inf", v |-> s]

Sign(x) == IF x > 0 THEN 1 ELSE IF x < 0 THEN -1 ELSE 0

Abs(x) == IF x < 0 THEN -x ELSE x

\* x + y in IEEE arithmetic
FAdd(x, y) ==
    IF x.k = "nan" \/ y.k = "nan" THEN NaN
    ELSE IF x.k = "inf" /\ y.k = "inf" THEN (IF x.v = y.v THEN x ELSE NaN)
    ELSE IF x.k = "inf" THEN x
    ELSE IF y.k = "inf" THEN y
    ELSE Fin(x.v + y.v)

\* f[1] + ... + f[n], from 0.0
RECURSIVE FSum(_, _)
FSum(f, n) == IF n = 0 THEN Fin(0) ELSE FAdd(FSum(f, n - 1), f[n])

\* x < 0.0 in IEEE arithmetic (false for nan)
FNegative(x) == (x.k = "fin" /\ x.v < 0) \/ (x.k = "inf" /\ x.v < 0)

RECURSIVE SqrtIter(_, _, _)
SqrtIter(n, lo, hi) ==
    IF lo >= hi THEN lo
    ELSE LET mid == (lo + hi + 1) \div 2
         IN  IF mid * mid <= n THEN SqrtIter(n, mid, hi)
             ELSE SqrtIter(n, lo, mid - 1)

\* floor of the square root of n
ISqrt(n) == SqrtIter(n, 0, IF n < 40000 THEN n ELSE 40000)

\* np.sqrt of an integer, one decimal digit kept
Sqrt10(n) == ISqrt(100 * n)

\* floor(x * m / d) for d > 0, without forming x * m
MulDiv(x, m, d) == (x \div d) * m + ((x % d) * m) \div d

\* ------------------------------------------------- src/mnn/model.py : G
\* G = 0.0043008211 in units of 1e-7
G == 43008

\* --------------------------------------- MNnModel per-disc quantities
\* r is a radius from np.sqrt (scaled by 10); z, a, b, M are plain numbers.
MNn_mn_density(r, z, a, b, M) ==
    LET h == Sqrt10(z * z + b * b)
        fac == b * b * M
        ah2 == (10 * a + h) * (10 * a + h)
        ar2 == a * r * r
        a3h == 10 * a + 3 * h
        num == 10 * ar2 + a3h * ah2
        D == r * r + ah2
        sD == ISqrt(D)
    IN  IF h = 0 \/ D = 0 \/ sD = 0 THEN NaN
        ELSE Fin(MulDiv(MulDiv(MulDiv(fac * num, 1000, D), 1000, h * h * h),
                        100, D * sD))

MNn_mn_potential(r, z, a, b, M) ==
    LET M1 == M
        h == Sqrt10(z * z + b * b)
        den == r * r + (10 * a + h) * (10 * a + h)
        sden == ISqrt(den)
    IN  IF sden = 0
        THEN (IF M1 = 0 THEN NaN ELSE Inf(-Sign(M1)))
        ELSE Fin((-(G * M1 * 10)) \div sden)

get_tangent_coordinates(x, y, z, axis) ==
    IF axis = "x" THEN <<y, z, x>>
    ELSE IF axis = "y" THEN <<x, z, y>>
    ELSE <<x, y, z>>

\* q1 * t for a tangent coordinate t, q1 = num / den
ForceTangent(t, M, den) ==
    IF den = 0
    THEN (IF M = 0 \/ t = 0 THEN NaN ELSE Inf(-Sign(M) * Sign(t)))
    ELSE Fin(MulDiv(-(G * M * t), 1000, den))

\* q1 * (n * q2), q2 = (a + f3) / f3
ForceNormal(n, a, M, f1, den) ==
    IF f1 = 0 \/ den = 0 THEN NaN
    ELSE Fin(MulDiv((-(G * M * n * (10 * a + f1))) \div f1, 1000, den))

MNn_mn_force(t1, t2, n, a, b, M, axis) ==
    LET R2 == t1 * t1 + t2 * t2
        f1 == Sqrt10(b * b + n * n)
        f2 == (10 * a + f1) * (10 * a + f1)
        den == (100 * R2 + f2) * ISqrt(100 * R2 + f2)
        c1 == ForceTangent(t1, M, den)
        c2 == ForceTangent(t2, M, den)
        cn == ForceNormal(n, a, M, f1, den)
    IN  IF axis = "x" THEN <<cn, c1, c2>>
        ELSE IF axis = "y" THEN <<c1, cn, c2>>
        ELSE <<c1, c2, cn>>

\* quantity_callback(r, z, a, b, M) for the two scalar callbacks
MNn_callback(quantity, r, z, a, b, M) ==
    IF quantity = "density" THEN MNn_mn_density(r, z, a, b, M)
    ELSE MNn_mn_potential(r, z, a, b, M)

\* a, b, M = discs[id_mod*3:(id_mod+1)*3]   (id_mod counts from 0)
DiscSlice(ds, id_mod) == <<ds[3 * id_mod + 1], ds[3 * id_mod + 2], ds[3 * id_mod + 3]>>

\* ----------------------------------------- MNnModel summed evaluations
\* One disc's scalar quantity at (x, y, z): the radius and the height are
\* the ones of the disc's own axis.
MNn_ScalarTerm(ds, ax, id_mod, axis, pt, quantity) ==
    LET x == pt[1]
        y == pt[2]
        z == pt[3]
        rxy == Sqrt10(x * x + y * y)
        rxz == Sqrt10(x * x + z * z)
        ryz == Sqrt10(y * y + z * z)
        d == DiscSlice(ds, id_mod)
    IN  IF axis = "x" THEN MNn_callback(quantity, ryz, x, d[1], d[2], d[3])
        ELSE IF axis = "y" THEN MNn_callback(quantity, rxz, y, d[1], d[2], d[3])
        ELSE MNn_callback(quantity, rxy, z, d[1], d[2], d[3])

\* for axis in self.axes[1:]: ... total_sum += ...; id_mod += 1
RECURSIVE MNn_ScalarLoop(_, _, _, _, _, _)
MNn_ScalarLoop(ds, ax, id_mod, pt, quantity, total_sum) ==
    IF id_mod >= Len(ax) THEN total_sum
    ELSE MNn_ScalarLoop(ds, ax, id_mod + 1, pt, quantity,
             FAdd(total_sum, MNn_ScalarTerm(ds, ax, id_mod, ax[id_mod + 1], pt, quantity)))

\* the loop of MMNModel._evaluate_quantity in place of this one: the index
\* restarts at 0, so the first disc is added twice and the last one never
RECURSIVE MNn_ScalarLoopFromZero(_, _, _, _, _, _)
MNn_ScalarLoopFromZero(ds, ax, id_mod, pt, quantity, total_sum) ==
    IF id_mod >= Len(ax) - 1 THEN total_sum
    ELSE MNn_ScalarLoopFromZero(ds, ax, id_mod + 1, pt, quantity,
             FAdd(total_sum, MNn_ScalarTerm(ds, ax, id_mod, ax[id_mod + 1], pt, quantity)))

evaluate_scalar_quantity_from_zero(ds, ax, pt, quantity) ==
    MNn_ScalarLoopFromZero(ds, ax, 0, pt, quantity,
                           MNn_ScalarTerm(ds, ax, 0, ax[1], pt, quantity))

\* MNnModel._evaluate_scalar_quantity, for a model holding at least one disc
evaluate_scalar_quantity(ds, ax, pt, quantity) ==
    MNn_ScalarLoop(ds, ax, 1, pt, quantity,
                   MNn_ScalarTerm(ds, ax, 0, ax[1], pt, quantity))

VecAdd(u, w) == <<FAdd(u[1], w[1]), FAdd(u[2], w[2]), FAdd(u[3], w[3])>>

MNn_ForceTerm(ds, ax, id_mod, axis, pt) ==
    LET d == DiscSlice(ds, id_mod)
        t == get_tangent_coordinates(pt[1], pt[2], pt[3], axis)
    IN  MNn_mn_force(t[1], t[2], t[3], d[1], d[2], d[3], axis)

RECURSIVE MNn_ForceLoop(_, _, _, _, _)
MNn_ForceLoop(ds, ax, id_mod, pt, total_sum) ==
    IF id_mod >= Len(ax) THEN total_sum
    ELSE MNn_ForceLoop(ds, ax, id_mod + 1, pt,
             VecAdd(total_sum, MNn_ForceTerm(ds, ax, id_mod, ax[id_mod + 1], pt)))

\* MNnModel.evaluate_force, for a model holding at least one disc
MNn_force_sum(ds, ax, pt) ==
    MNn_ForceLoop(ds, ax, 1, pt, MNn_ForceTerm(ds, ax, 0, ax[1], pt))

\* get_model with the slice of a disc read as (b, a, M)
MNn_get_model_swapped(ds, ax) ==
    [id_axis \in 1..Len(ax) |->
        <<ax[id_axis], ds[3 * id_axis - 1], ds[3 * id_axis - 2], ds[3 * id_axis]>>]

\* MNnModel.get_model
MNn_get_model(ds, ax) ==
    [id_axis \in 1..Len(ax) |->
        <<ax[id_axis], ds[3 * id_axis - 2], ds[3 * id_axis - 1], ds[3 * id_axis]>>]

\* MNnModel._evaluate_density_axis
evaluate_density_axis(ds, ax, r, axis) ==
    IF axis = "x" THEN evaluate_scalar_quantity(ds, ax, <<r, 0, 0>>, "density")
    ELSE IF axis = "y" THEN evaluate_scalar_quantity(ds, ax, <<0, r, 0>>, "density")
    ELSE evaluate_scalar_quantity(ds, ax, <<0, 0, r>>, "density")

\* --------------------------------------------------- results of a call
Returned(value, printed) ==
    [outcome |-> "returned", exc |-> "", value |-> value, printed |-> printed,
     calls |-> <<>>]

Raised(exc, printed) ==
    [outcome |-> "raised", exc |-> exc, value |-> None, printed |-> printed,
     calls |-> <<>>]

\* ------------------------------------ MNnModel.is_positive_definite
AxisOrder == <<"x", "y", "z">>

\* mr with the disc's own axis not told apart from the others
IPD_mr_all_discs(ds, ax, axis) ==
    LET cand == {ds[3 * i - 2] : i \in 1..Len(ax)} \cup {0}
    IN  CHOOSE m \in cand : \A c \in cand : c <= m

\* mr after the loop over mods: the largest a > 0 among the discs whose axis
\* differs from axis, or 0
IPD_mr(ds, ax, axis) ==
    LET mods == MNn_get_model(ds, ax)
        cand == {mods[i][2] : i \in {j \in 1..Len(mods) : mods[j][1] # axis}} \cup {0}
    IN  CHOOSE m \in cand : \A c \in cand : c <= m

\* the upper bound given to op.fminbound: the max_range argument
IPD_upper(max_range, mr) == max_range

\* the smallest of a set of floating point values, nan left aside
FMin(S) ==
    LET real == {v \in S : v.k # "nan"}
        key(v) == IF v.k = "inf" THEN v.v * 2000000000 ELSE v.v
    IN  IF real = {} THEN NaN
        ELSE CHOOSE v \in real : \A w \in real : key(v) <= key(w)

\* op.fminbound(self._evaluate_density_axis, 0.0, x2, args=[axis]): rejects
\* a bound that is no number before it evaluates anything; otherwise the
\* minimum of the function over the sample points 1..x2.
fminbound(ds, ax, axis, x2) ==
    IF ~x2.some THEN [raised |-> TRUE, exc |-> "TypeError", fval |-> NaN]
    ELSE IF Len(ax) = 0 THEN [raised |-> TRUE, exc |-> "ValueError", fval |-> NaN]
    ELSE [raised |-> FALSE, exc |-> "",
          fval |-> FMin({evaluate_density_axis(ds, ax, r, axis) : r \in 1..x2.v})]

RECURSIVE IPD_Loop(_, _, _, _, _)
IPD_Loop(ds, ax, max_range, i, calls) ==
    IF i > 3 THEN [Returned(Some(TRUE), "") EXCEPT !.calls = calls]
    ELSE LET axis == AxisOrder[i]
             mr == IPD_mr(ds, ax, axis)
         IN  IF ~max_range.some /\ mr = 0
             THEN IPD_Loop(ds, ax, max_range, i + 1, calls)
             ELSE LET upper == IPD_upper(max_range,
                                         IF max_range.some THEN max_range
                                         ELSE Some(10 * mr))
                      made == Append(calls, [axis |-> axis, upper |-> upper])
                      fm == fminbound(ds, ax, axis, upper)
                  IN  IF fm.raised
                      THEN [Raised(fm.exc, "") EXCEPT !.calls = made]
                      ELSE IF FNegative(fm.fval)
                      THEN [Returned(Some(FALSE), "") EXCEPT !.calls = made]
                      ELSE IPD_Loop(ds, ax, max_range, i + 1, made)

is_positive_definite(ds, ax, max_range) == IPD_Loop(ds, ax, max_range, 1, <<>>)

\* ------------------------------------------------- MNnModel operations
MaxRanges == {None, Some(1), Some(3)}

\* add_disc with the constraint tested after the disc is stored
add_disc_stores_first(axis, a, b, M) ==
    /\ call' = [op |-> "add_disc", axis |-> axis, a |-> a, b |-> b, M |-> M]
    /\ Len(axes) < MaxDiscs
    /\ result' = IF b < 0 THEN Raised("MNnError", "")
                 ELSE Returned(None, IF a + b < 0 THEN "Warning" ELSE "")
    /\ discs' = discs \o <<a, b, M>>
    /\ axes' = Append(axes, axis)
    /\ UNCHANGED fitter

\* add_disc with a + b < 0 rejected like b < 0
add_disc_rejects_negative_sum(axis, a, b, M) ==
    /\ call' = [op |-> "add_disc", axis |-> axis, a |-> a, b |-> b, M |-> M]
    /\ IF b < 0 \/ a + b < 0
       THEN /\ result' = Raised("MNnError", "")
            /\ UNCHANGED <<discs, axes>>
       ELSE /\ Len(axes) < MaxDiscs
            /\ result' = Returned(None, "")
            /\ discs' = discs \o <<a, b, M>>
            /\ axes' = Append(axes, axis)
    /\ UNCHANGED fitter

add_disc(axis, a, b, M) ==
    /\ call' = [op |-> "add_disc", axis |-> axis, a |-> a, b |-> b, M |-> M]
    /\ IF b < 0
       THEN /\ result' = Raised("MNnError", "")
            /\ UNCHANGED <<discs, axes>>
       ELSE /\ Len(axes) < MaxDiscs
            /\ result' = Returned(None, IF a + b < 0 THEN "Warning" ELSE "")
            /\ discs' = discs \o <<a, b, M>>
            /\ axes' = Append(axes, axis)
    /\ UNCHANGED fitter

get_model ==
    /\ call' = [op |-> "get_model"]
    /\ result' = Returned(Some(MNn_get_model(discs, axes)), "")
    /\ UNCHANGED <<discs, axes, fitter>>

evaluate_scalar(quantity, pt) ==
    /\ call' = [op |-> "evaluate_" \o quantity, pt |-> pt]
    /\ result' = IF Len(axes) = 0 THEN Raised("ValueError", "")
                 ELSE Returned(Some(evaluate_scalar_quantity(discs, axes, pt, quantity)), "")
    /\ UNCHANGED <<discs, axes, fitter>>

evaluate_force(pt) ==
    /\ call' = [op |-> "evaluate_force", pt |-> pt]
    /\ result' = IF Len(axes) = 0 THEN Raised("ValueError", "")
                 ELSE Returned(Some(MNn_force_sum(discs, axes, pt)), "")
    /\ UNCHANGED <<discs, axes, fitter>>

call_is_positive_definite(max_range) ==
    /\ call' = [op |-> "is_positive_definite", max_range |-> max_range]
    /\ result' = is_positive_definite(discs, axes, max_range)
    /\ UNCHANGED <<discs, axes, fitter>>

\* the zip with a, b, M = m unpacked in the order M, b, a
ZipArray_reversed(model, ax) ==
    LET n == IF Len(model) < Len(ax) THEN Len(model) ELSE Len(ax)
    IN  [i \in 1..n |-> <<ax[i], model[i][3], model[i][2], model[i][1]>>]

\* for m, ax in zip(model, axes): a, b, M = m : the 4-tuples (axis, a, b, M)
\* handed to add_disc (add_discs is handed such tuples by its caller)
ZipArray(model, ax) ==
    LET n == IF Len(model) < Len(ax) THEN Len(model) ELSE Len(ax)
    IN  [i \in 1..n |-> <<ax[i], model[i][1], model[i][2], model[i][3]>>]

\* the loop as one step: every tuple is tested before any is appended
AddEach_atomic(ds, ax, values, k, printed) ==
    IF \E i \in k..Len(values) : values[i][3] < 0
    THEN [discs |-> ds, axes |-> ax, result |-> Raised("MNnError", printed)]
    ELSE [discs |-> ds \o [i \in 1..(3 * Len(values)) |->
                              values[((i - 1) \div 3) + 1][((i - 1) % 3) + 2]],
          axes |-> ax \o [i \in 1..Len(values) |-> values[i][1]],
          result |-> Returned(None,
                        IF \E i \in 1..Len(values) : values[i][2] + values[i][3] < 0
                        THEN "Warning" ELSE printed)]

\* add_disc called on each 4-tuple of values in turn, from tuple k on: the
\* first b < 0 raises out of the loop, what was appended before it stays
RECURSIVE AddEach(_, _, _, _, _)
AddEach(ds, ax, values, k, printed) ==
    IF k > Len(values)
    THEN [discs |-> ds, axes |-> ax, result |-> Returned(None, printed)]
    ELSE LET v == values[k]
         IN  IF v[3] < 0
             THEN [discs |-> ds, axes |-> ax, result |-> Raised("MNnError", printed)]
             ELSE AddEach(ds \o <<v[2], v[3], v[4]>>, Append(ax, v[1]), values, k + 1,
                          IF v[2] + v[3] < 0 THEN "Warning" ELSE printed)

\* the (model, axes) arguments of load_from_array
ArrayArgs ==
    {<< <<<<1, 2, 1>>, <<-1, 2, 2>>>>, <<"z", "x">> >>,
     << <<<<1, 2, 1>>, <<1, -1, 1>>>>, <<"x", "y">> >>,
     << <<<<-1, 0, 3>>>>, <<"y">> >>,
     << <<<<1, 0, 1>>, <<1, 2, 1>>>>, <<"x">> >>,
     << <<<<1, -1, 1>>, <<1, 2, 1>>>>, <<"z", "x">> >>}

load_from_array(model, ax) ==
    LET done == AddEach(discs, axes, ZipArray(model, ax), 1, "")
    IN  /\ call' = [op |-> "load_from_array", model |-> model, axes |-> ax]
        /\ Len(done.axes) <= MaxDiscs
        /\ discs' = done.discs
        /\ axes' = done.axes
        /\ result' = done.result
        /\ UNCHANGED fitter

add_discs(values) ==
    LET done == AddEach(discs, axes, values, 1, "")
    IN  /\ call' = [op |-> "add_discs", values |-> values]
        /\ Len(done.axes) <= MaxDiscs
        /\ discs' = done.discs
        /\ axes' = done.axes
        /\ result' = done.result
        /\ UNCHANGED fitter

\* the same change when the list returned is the model's own storage
modify_returned_list_aliased ==
    /\ call.op \in {"get_model", "modify_returned_list"}
    /\ result.value.some
    /\ Len(result.value.v) > 0
    /\ call' = [op |-> "modify_returned_list"]
    /\ result' = Returned(Some(Tail(result.value.v)), "")
    /\ discs' = SubSeq(discs, 4, Len(discs))
    /\ axes' = Tail(axes)
    /\ UNCHANGED fitter

\* the caller changes the list get_model returned: res is a list built by
\* the call, of tuples built by the call
modify_returned_list ==
    /\ call.op \in {"get_model", "modify_returned_list"}
    /\ result.value.some
    /\ Len(result.value.v) > 0
    /\ call' = [op |-> "modify_returned_list"]
    /\ result' = Returned(Some(Tail(result.value.v)), "")
    /\ UNCHANGED <<discs, axes, fitter>>

\* ------------------------------- MNnModel.generate_dataset_meshgrid
\* np.linspace(lo, hi, n)
Linspace(lo, hi, n) ==
    [i \in 1..n |-> IF n = 1 THEN lo ELSE lo + ((i - 1) * (hi - lo)) \div (n - 1)]

\* np.meshgrid(X, Y, Z, indexing='ij'), node after node
Meshgrid(X, Y, Z) ==
    [i \in 1..(Len(X) * Len(Y) * Len(Z)) |->
        <<X[((i - 1) \div (Len(Y) * Len(Z))) + 1],
          Y[(((i - 1) \div Len(Z)) % Len(Y)) + 1],
          Z[((i - 1) % Len(Z)) + 1]>>]

\* the (xmin, xmax, nx, quantity) arguments: a box of 1 x 1 x 2 nodes, an
\* unknown quantity, and an xmin that is no triplet
GridArgs ==
    {<< <<1, 0, 0>>, <<1, 0, 2>>, <<1, 1, 2>>, "density" >>,
     << <<1, 0, 0>>, <<1, 0, 2>>, <<1, 1, 2>>, "force" >>,
     << <<1, 0, 0>>, <<1, 0, 2>>, <<1, 1, 2>>, "mass" >>,
     << <<0, 0>>, <<1, 0, 2>>, <<1, 1, 2>>, "potential" >>}

\* generate_dataset_meshgrid with the quantity told apart only where the
\* grid is filled (the final else of the source)
generate_dataset_meshgrid_late(xmin, xmax, nx, quantity) ==
    /\ call' = [op |-> "generate_dataset_meshgrid", xmin |-> xmin, xmax |-> xmax,
                nx |-> nx, quantity |-> quantity]
    /\ result' =
         IF Len(xmin) # 3 \/ Len(xmax) # 3 \/ Len(nx) # 3
         THEN Returned(None, "Error triplets")
         ELSE IF quantity \notin {"density", "potential", "force"}
         THEN Raised("MNnError", "")
         ELSE IF Len(axes) = 0 THEN Raised("ValueError", "")
         ELSE Returned(Some([grid |-> <<>>, res |-> <<>>]), "")
    /\ UNCHANGED <<discs, axes, fitter>>

generate_dataset_meshgrid(xmin, xmax, nx, quantity) ==
    /\ call' = [op |-> "generate_dataset_meshgrid", xmin |-> xmin, xmax |-> xmax,
                nx |-> nx, quantity |-> quantity]
    /\ result' =
         IF quantity \notin {"density", "potential", "force"}
         THEN Returned(None, "Error quantity")
         ELSE IF Len(xmin) # 3 \/ Len(xmax) # 3 \/ Len(nx) # 3
         THEN Returned(None, "Error triplets")
         ELSE IF Len(axes) = 0 THEN Raised("ValueError", "")
         ELSE LET g == Meshgrid(Linspace(xmin[1], xmax[1], nx[1]),
                                Linspace(xmin[2], xmax[2], nx[2]),
                                Linspace(xmin[3], xmax[3], nx[3]))
                  res == [i \in 1..Len(g) |->
                            IF quantity = "force" THEN MNn_force_sum(discs, axes, g[i])
                            ELSE <<evaluate_scalar_quantity(discs, axes, g[i], quantity)>>]
              IN  Returned(Some([grid |-> g, res |-> res]), "")
    /\ UNCHANGED <<discs, axes, fitter>>

\* MMNFitter.__init__
MMNFitter(n_walkers, n_steps, fit_type, check_positive_definite, verbose) ==
    [n_walkers |-> n_walkers, n_steps |-> n_steps,
     sampler |-> None, samples |-> <<>>, quantiles |-> None,
     models |-> None, axes |-> None, ndim |-> 0, fit_type |-> fit_type,
     data |-> None, n_values |-> 0, yerr |-> None,
     verbose |-> verbose, check_DP |-> check_positive_definite]

\* MNnModel.__init__ (beside a fitter nothing is done with)
InitModel ==
    /\ discs = <<>>
    /\ axes = <<>>
    /\ call = [op |-> "__init__"]
    /\ result = Returned(None, "")
    /\ fitter = MMNFitter(2, 2, "potential", TRUE, TRUE)

NextModel ==
    \/ \E d \in DiscArgs : add_disc(d[1], d[2], d[3], d[4])
    \/ get_model
    \/ \E pt \in Points : evaluate_scalar("potential", pt)
    \/ \E pt \in Points : evaluate_scalar("density", pt)
    \/ \E pt \in Points : evaluate_force(pt)
    \/ \E max_range \in MaxRanges : call_is_positive_definite(max_range)
    \/ \E args \in ArrayArgs : load_from_array(args[1], args[2])
    \/ \E args \in ArrayArgs : add_discs(ZipArray(args[1], args[2]))
    \/ modify_returned_list
    \/ \E g \in GridArgs : generate_dataset_meshgrid(g[1], g[2], g[3], g[4])

SpecModel == InitModel /\ [][NextModel]_vars

\* ================================================================ MMNFitter
\* ------------------------------------------------- bounds of the fitter
\* n_steps and n_walkers of the modelled fitters
MaxSteps == 3
Walkers == 2
\* set_model_type(nx, ny, nz)
ModelTypes == {<<0, 0, 1>>, <<1, 0, 1>>}
\* the parameter vectors handed to loglikelihood: triples (a, b, M), one
\* per disk; (-2, 1, 1) has a + b < 0
ParamVecs(ndim) ==
    IF ndim = 3 THEN {<<1, 2, 1>>, <<-1, 2, 2>>, <<-2, 1, 1>>}
    ELSE IF ndim = 6
    THEN {<<1, 2, 1, 1, 2, 1>>, <<1, 2, 1, -1, 2, 2>>,
          <<1, 2, 1, -2, 1, 1>>, <<-2, 1, 1, 1, 2, 1>>}
    ELSE {<<>>}
\* np.random.rand, on the grid of the model
RandVals == {1}
\* the table read by load_data: rows (x, y, z, potential)
DataSets == {<< <<1, 0, 2, -11600>>, <<0, 0, 0, -14000>> >>}
\* yerr = 0.01 * rand, in units of 1e-7
YerrVals == {20000}
\* the vectors the optimizer is taken to return
OptVecs(ndim) ==
    IF ndim = 3 THEN {<<1, 2, 1>>}
    ELSE IF ndim = 6 THEN {<<1, 2, 1, -1, 2, 2>>}
    ELSE {<<>>}
\* the vectors the sampler is taken to propose
SamplerVecs(ndim) ==
    IF ndim = 3 THEN {<<-1, 2, 2>>}
    ELSE IF ndim = 6 THEN {<<1, 2, 1, 1, 2, 1>>}
    ELSE {<<>>}

Repeat(v, n) == [i \in 1..n |-> v]

\* ---------------------------------------- MMNModel per-disk quantities
\* G = 0.0043008211 in units of 1e-7
MMN_G == 43008

MMN_mn_density(r, z, a, b, Mo) ==
    LET M == Abs(Mo)
        h == Sqrt10(z * z + b * b)
        ah2 == (10 * a + h) * (10 * a + h)
        ar2 == a * r * r
        a3h == 10 * a + 3 * h
        num == 10 * ar2 + a3h * ah2
        D == r * r + ah2
        sD == ISqrt(D)
        fac == b * b * M
    IN  IF h = 0 \/ D = 0 \/ sD = 0 THEN NaN
        ELSE Fin(MulDiv(MulDiv(MulDiv(fac * num, 1000, D), 1000, h * h * h),
                        100, D * sD))

MMN_mn_potential(r, z, a, b, Mo) ==
    LET M == Abs(Mo)
        h == Sqrt10(z * z + b * b)
        den == r * r + (10 * a + h) * (10 * a + h)
        sden == ISqrt(den)
    IN  IF sden = 0
        THEN (IF M = 0 THEN NaN ELSE Inf(-1))
        ELSE Fin((-(MMN_G * M * 10)) \div sden)

\* MMNModel.__init__ : the object bound to the local name M
MMNModel == [is_model |-> TRUE, models |-> <<>>, axes |-> <<>>, num |-> 0]

\* MMNModel.add_model
MMN_add_model(m, axis, a, b, M) ==
    [m EXCEPT !.models = @ \o <<a, b, M>>, !.axes = Append(@, axis)]

\* MMNModel.is_positive_definite: op.fminbound calls self.evaluate_density
\* with the one argument it minimizes over; evaluate_density(x, y, z) takes
\* three, so the first evaluation raises.
MMN_is_positive_definite(m) == [raised |-> TRUE, exc |-> "TypeError", value |-> FALSE]

\* ------------------------------------------------------- MMNFitter.sMN
\* the summed value at one row of the data, or "AttributeError" when the
\* fit type selects MMNModel.mn_force, which MMNModel does not define
sMN_eval(fit_type, r, z, a, b, M) ==
    IF fit_type = "density" THEN MMN_mn_density(r, z, a, b, M)
    ELSE MMN_mn_potential(r, z, a, b, M)

RECURSIVE sMN_sum(_, _, _, _, _, _)
sMN_sum(faxes, models, fit_type, row, id_mod, total_sum) ==
    IF id_mod >= Len(faxes) THEN total_sum
    ELSE LET x == row[1]
             y == row[2]
             z == row[3]
             rxy == Sqrt10(x * x + y * y)
             rxz == Sqrt10(x * x + z * z)
             ryz == Sqrt10(y * y + z * z)
             a == models[3 * id_mod + 1]
             b == models[3 * id_mod + 2]
             M == models[3 * id_mod + 3]
             axis == faxes[id_mod + 1]
             value == IF axis = "x" THEN sMN_eval(fit_type, ryz, x, a, b, M)
                      ELSE IF axis = "y" THEN sMN_eval(fit_type, rxz, y, a, b, M)
                      ELSE sMN_eval(fit_type, rxy, z, a, b, M)
         IN  sMN_sum(faxes, models, fit_type, row, id_mod + 1, FAdd(total_sum, value))

\* sMN(models): one summed value per row of self.data
sMN(f, models) ==
    LET used == IF Len(models) = 0 THEN f.models.v ELSE models
    IN  [i \in 1..Len(f.data.v) |->
            sMN_sum(f.axes.v, used, f.fit_type, f.data.v[i], 0, Fin(0))]

\* ----------------------------------------------- MMNFitter.loglikelihood
\* np.log(inv_sigma2) = -2 ln(yerr) in units of 1e-3, yerr in units of 1e-7
LogInvSigma2(yerr) == IF yerr = 20000 THEN 12429 ELSE 10597

\* (p - model)**2 * inv_sigma2 - np.log(inv_sigma2) for one row, units 1e-3
LL_term(p, model, yerr) ==
    IF model.k = "nan" THEN NaN
    ELSE IF model.k = "inf" THEN Inf(1)
    ELSE LET t == (1000 * (p - model.v)) \div yerr
         IN  Fin((t * t) \div 1000 - LogInvSigma2(yerr))

\* -0.5 * np.sum(...)
LL_value(f, models) ==
    LET model == sMN(f, models)
        n == Len(f.data.v)
        total == FSum([i \in 1..n |-> LL_term(f.data.v[i][4], model[i], f.yerr.v[i])], n)
    IN  IF total.k = "nan" THEN NaN
        ELSE IF total.k = "inf" THEN Inf(-total.v)
        ELSE Fin((-total.v) \div 2)

\* a, b, M = models[id_mod*3:(id_mod+1)*3] : the local name M, which held
\* the MMNModel, now names the third number of the triple
LL_unpack_M(M, number) ==
    [is_model |-> FALSE, models |-> <<>>, axes |-> <<>>, num |-> number]

LL_call(m) == [op |-> "is_positive_definite", models |-> m.models, axes |-> m.axes]

\* lines 140-144
LL_likelihood(f, models) ==
    IF ~f.data.some THEN Raised("TypeError", "")
    ELSE IF f.fit_type \notin {"density", "potential"} THEN Raised("AttributeError", "")
    ELSE Returned(Some(LL_value(f, models)), "")

\* lines 135-138
LL_check(f, models, M) ==
    IF f.check_DP
    THEN IF ~M.is_model THEN Raised("AttributeError", "")
         ELSE LET pd == MMN_is_positive_definite(M)
              IN  IF pd.raised THEN [Raised(pd.exc, "") EXCEPT !.calls = <<LL_call(M)>>]
                  ELSE IF ~pd.value
                  THEN [Returned(Some(Inf(-1)), "") EXCEPT !.calls = <<LL_call(M)>>]
                  ELSE [LL_likelihood(f, models) EXCEPT !.calls = <<LL_call(M)>>]
    ELSE LL_likelihood(f, models)

\* lines 126-133
RECURSIVE LL_loop(_, _, _, _)
LL_loop(f, models, id_mod, M) ==
    IF id_mod >= Len(f.axes.v) THEN LL_check(f, models, M)
    ELSE LET a == models[3 * id_mod + 1]
             b == models[3 * id_mod + 2]
             M1 == LL_unpack_M(M, models[3 * id_mod + 3])
             axis == f.axes.v[id_mod + 1]
         IN  IF a + b < 0 THEN Returned(Some(Inf(-1)), "")
             ELSE IF f.check_DP
             THEN IF ~M1.is_model THEN Raised("AttributeError", "")
                  ELSE LL_loop(f, models, id_mod + 1,
                               MMN_add_model(M1, axis, a, b, M1.num))
             ELSE LL_loop(f, models, id_mod + 1, M1)

\* MMNFitter.loglikelihood(models)
loglikelihood(f, models) ==
    IF ~f.axes.some THEN Raised("TypeError", "")
    ELSE LL_loop(f, models, 0, MMNModel)

\* ------------------------------------------------ MMNFitter operations
FitTypes == {"potential", "density", "force"}
Burnins == {1, 100}
QuantileArgs == {<<16, 50, 84>>, <<16, 84>>}

\* set_model_type with the axes listed from z to x
set_model_type_reversed(nx, ny, nz) ==
    /\ call' = [op |-> "set_model_type", nx |-> nx, ny |-> ny, nz |-> nz]
    /\ \E r \in RandVals :
         fitter' = [fitter EXCEPT
                      !.ndim = (nx + ny + nz) * 3,
                      !.models = Some(Repeat(r, (nx + ny + nz) * 3)),
                      !.axes = Some(Repeat("z", nz) \o Repeat("y", ny) \o Repeat("x", nx))]
    /\ result' = Returned(None, "")
    /\ UNCHANGED <<discs, axes>>

set_model_type(nx, ny, nz) ==
    /\ call' = [op |-> "set_model_type", nx |-> nx, ny |-> ny, nz |-> nz]
    /\ \E r \in RandVals :
         fitter' = [fitter EXCEPT
                      !.ndim = (nx + ny + nz) * 3,
                      !.models = Some(Repeat(r, (nx + ny + nz) * 3)),
                      !.axes = Some(Repeat("x", nx) \o Repeat("y", ny) \o Repeat("z", nz))]
    /\ result' = Returned(None, "")
    /\ UNCHANGED <<discs, axes>>

load_data(table) ==
    /\ call' = [op |-> "load_data"]
    /\ \E y \in YerrVals :
         fitter' = [fitter EXCEPT !.data = Some(table), !.n_values = Len(table),
                                  !.yerr = Some(Repeat(y, Len(table)))]
    /\ result' = Returned(None, "")
    /\ UNCHANGED <<discs, axes>>

\* loglikelihood that keeps the vector it was handed as the current one
call_loglikelihood_keeps_vector(models) ==
    /\ call' = [op |-> "loglikelihood", models |-> models]
    /\ result' = loglikelihood(fitter, models)
    /\ fitter' = [fitter EXCEPT !.models = Some(models)]
    /\ UNCHANGED <<discs, axes>>

call_loglikelihood(models) ==
    /\ call' = [op |-> "loglikelihood", models |-> models]
    /\ result' = loglikelihood(fitter, models)
    /\ UNCHANGED <<discs, axes, fitter>>

\* the vectors op.minimize can return: a point at which chi2 was evaluated
\* without raising
OptResults(f) ==
    {v \in OptVecs(f.ndim) \cup {f.models.v} : loglikelihood(f, v).outcome = "returned"}

\* result = op.minimize(chi2, models); values = result["x"]
minimize(values) == [op |-> "minimize", x |-> values]

maximum_likelihood ==
    /\ call' = [op |-> "maximum_likelihood"]
    /\ IF ~fitter.models.some
       THEN /\ result' = Raised("TypeError", "")
            /\ UNCHANGED fitter
       ELSE LET first == loglikelihood(fitter, fitter.models.v)
            IN  IF first.outcome = "raised"
                THEN /\ result' = Raised(first.exc, IF fitter.verbose THEN "Computing" ELSE "")
                     /\ UNCHANGED fitter
                ELSE \E values \in OptResults(fitter) :
                       /\ fitter' = [fitter EXCEPT !.models = Some(values)]
                       /\ result' = [Returned(None, IF fitter.verbose THEN "results" ELSE "")
                                       EXCEPT !.calls = <<minimize(values)>>]
    /\ UNCHANGED <<discs, axes>>

\* The chains the sampler is taken to return: every walker sits at the
\* current vector (its start, up to the 1e-4 offsets); the last walker
\* either stays there or accepts, at the last step, a proposal at which the
\* log-likelihood is finite.
AcceptedVecs(f) ==
    {v \in SamplerVecs(f.ndim) :
        LET r == loglikelihood(f, v)
        IN  r.outcome = "returned" /\ r.value.v.k = "fin"}

Chains(f) ==
    {[w \in 1..f.n_walkers |->
        [t \in 1..f.n_steps |-> IF t = f.n_steps /\ w \in moved THEN Q ELSE f.models.v]] :
     moved \in {{}, {f.n_walkers}},
     Q \in AcceptedVecs(f) \cup {f.models.v}}

\* chain[:, nstp:, :].reshape((-1, ndim)) : walker after walker, the steps
\* nstp, nstp+1, ... of each (counted from 0)
Flatten(chain, nstp, n_steps) ==
    LET kept == n_steps - nstp
    IN  [i \in 1..(Len(chain) * kept) |->
            chain[((i - 1) \div kept) + 1][nstp + ((i - 1) % kept) + 1]]

\* nstp = 0.5 * self.n_steps, used as a slice index
fit_nstp(n_steps, burnin) == n_steps \div 2

\* sampler.run_mcmc(pos, n_steps) and the chain it left in sampler.chain
run_mcmc(chain) == [op |-> "run_mcmc", chain |-> chain]

fit_data(burnin) ==
    /\ call' = [op |-> "fit_data", burnin |-> burnin]
    /\ IF ~fitter.models.some
       THEN /\ result' = Raised("TypeError", "")
            /\ UNCHANGED fitter
       ELSE LET first == loglikelihood(fitter, fitter.models.v)
                running == IF fitter.verbose THEN "Running" ELSE ""
            IN  IF first.outcome = "raised"
                THEN /\ result' = Raised(first.exc, running)
                     /\ fitter' = [fitter EXCEPT !.sampler = Some("EnsembleSampler")]
                ELSE \E chain \in Chains(fitter) :
                       \/ \* the float nstp is refused as a slice index
                          /\ result' = [Raised("TypeError", running)
                                          EXCEPT !.calls = <<run_mcmc(chain)>>]
                          /\ fitter' = [fitter EXCEPT !.sampler = Some("EnsembleSampler")]
                       \/ \* the float nstp is truncated to an integer
                          LET samples == Flatten(chain, fit_nstp(fitter.n_steps, burnin),
                                                 fitter.n_steps)
                          IN  /\ result' = [Returned(Some(samples),
                                               IF fitter.verbose THEN "Running Done" ELSE "")
                                              EXCEPT !.calls = <<run_mcmc(chain)>>]
                              /\ fitter' = [fitter EXCEPT !.sampler = Some("EnsembleSampler"),
                                                          !.samples = samples]
    /\ UNCHANGED <<discs, axes>>

\* ---------------------------------------------------------- percentiles
Column(samples, j) == [i \in 1..Len(samples) |-> samples[i][j]]

\* the k-th smallest entry of col (k from 1)
KthSmallest(col, k) ==
    CHOOSE v \in {col[i] : i \in 1..Len(col)} :
        /\ Cardinality({i \in 1..Len(col) : col[i] < v}) < k
        /\ Cardinality({i \in 1..Len(col) : col[i] <= v}) >= k

\* np.percentile(col, q) with linear interpolation, in units of 1/100
Percentile(col, q) ==
    LET n == Len(col)
        lo == (q * (n - 1)) \div 100
        rem == (q * (n - 1)) % 100
        hi == IF lo + 1 > n - 1 THEN n - 1 ELSE lo + 1
        vlo == KthSmallest(col, lo + 1)
        vhi == KthSmallest(col, hi + 1)
    IN  100 * vlo + rem * (vhi - vlo)

\* np.array((qarray[1], qarray[2]-qarray[1], qarray[1]-qarray[0])).T
QuantileRows(samples, quantiles) ==
    [j \in 1..Len(samples[1]) |->
        LET q0 == Percentile(Column(samples, j), quantiles[1])
            q1 == Percentile(Column(samples, j), quantiles[2])
            q2 == Percentile(Column(samples, j), quantiles[3])
        IN  <<q1, q2 - q1, q1 - q0>>]

\* the same expression on the percentiles of an empty sample: three nan
EmptyQuantiles == <<NaN, NaN, NaN>>

\* lines 261-273: the rows are printed when verbose, then returned
CQ_report(f, rows, one_dimensional, warned) ==
    IF ~f.verbose THEN Returned(Some(rows), warned)
    ELSE IF ~f.axes.some THEN Raised("TypeError", warned)
    ELSE IF Len(f.axes.v) >= 1 /\ (one_dimensional \/ 3 * Len(f.axes.v) > Len(rows))
    THEN Raised("IndexError", warned)
    ELSE Returned(Some(rows), warned)

\* compute_quantiles with a non-triplet that forgets the stored summary
compute_quantiles_clears(quantiles) ==
    /\ call' = [op |-> "compute_quantiles", quantiles |-> quantiles]
    /\ IF Len(quantiles) # 3
       THEN /\ result' = Returned(None, "Warning triplet")
            /\ fitter' = [fitter EXCEPT !.quantiles = None]
       ELSE IF Len(fitter.samples) = 0
       THEN \/ /\ result' = Raised("IndexError", "Warning fit_data")
               /\ UNCHANGED fitter
            \/ /\ fitter' = [fitter EXCEPT !.quantiles = Some(EmptyQuantiles)]
               /\ result' = CQ_report(fitter, EmptyQuantiles, TRUE, "Warning fit_data")
       ELSE LET rows == QuantileRows(fitter.samples, quantiles)
            IN  /\ fitter' = [fitter EXCEPT !.quantiles = Some(rows)]
                /\ result' = CQ_report(fitter, rows, FALSE, "")
    /\ UNCHANGED <<discs, axes>>

compute_quantiles(quantiles) ==
    /\ call' = [op |-> "compute_quantiles", quantiles |-> quantiles]
    /\ IF Len(quantiles) # 3
       THEN /\ result' = Returned(None, "Warning triplet")
            /\ UNCHANGED fitter
       ELSE IF Len(fitter.samples) = 0
       THEN \/ \* np.percentile refuses the empty sample
               /\ result' = Raised("IndexError", "Warning fit_data")
               /\ UNCHANGED fitter
            \/ \* np.percentile answers nan for the empty sample
               /\ fitter' = [fitter EXCEPT !.quantiles = Some(EmptyQuantiles)]
               /\ result' = CQ_report(fitter, EmptyQuantiles, TRUE, "Warning fit_data")
       ELSE LET rows == QuantileRows(fitter.samples, quantiles)
            IN  /\ fitter' = [fitter EXCEPT !.quantiles = Some(rows)]
                /\ result' = CQ_report(fitter, rows, FALSE, "")
    /\ UNCHANGED <<discs, axes>>

InitFitter ==
    /\ discs = <<>>
    /\ axes = <<>>
    /\ call = [op |-> "__init__"]
    /\ result = Returned(None, "")
    /\ \E fit_type \in FitTypes, check_positive_definite \in BOOLEAN, verbose \in BOOLEAN :
         fitter = MMNFitter(Walkers, MaxSteps, fit_type, check_positive_definite, verbose)

NextFitter ==
    \/ \E t \in ModelTypes : set_model_type(t[1], t[2], t[3])
    \/ \E table \in DataSets : load_data(table)
    \/ \E models \in ParamVecs(fitter.ndim) : call_loglikelihood(models)
    \/ maximum_likelihood
    \/ \E burnin \in Burnins : fit_data(burnin)
    \/ \E quantiles \in QuantileArgs : compute_quantiles(quantiles)

SpecFitter == InitFitter /\ [][NextFitter]_vars

\* ================================================================ MMNModel
\* In SpecMMN the variables discs and axes hold MMNModel.models and
\* MMNModel.axes, which have the layout of MNnModel.discs and MNnModel.axes.

\* the (axis, a, b, M) given to MMNModel.add_model
ModelArgs ==
    {<<"x", 1, 2, 1>>, <<"y", 1, 2, 1>>, <<"z", 1, 2, 1>>,
     <<"z", -1, 2, 2>>, <<"x", 2, 1, 3>>}

MMN_callback(quantity, r, z, a, b, M) ==
    IF quantity = "density" THEN MMN_mn_density(r, z, a, b, M)
    ELSE MMN_mn_potential(r, z, a, b, M)

\* quantity_callback at (x, y, z) for the triple a, b, M = models[id_mod*3:...]
\* and the axis given
MMN_Term(models, id_mod, axis, pt, quantity) ==
    LET x == pt[1]
        y == pt[2]
        z == pt[3]
        rxy == Sqrt10(x * x + y * y)
        rxz == Sqrt10(x * x + z * z)
        ryz == Sqrt10(y * y + z * z)
        d == DiscSlice(models, id_mod)
    IN  IF axis = "x" THEN MMN_callback(quantity, ryz, x, d[1], d[2], d[3])
        ELSE IF axis = "y" THEN MMN_callback(quantity, rxz, y, d[1], d[2], d[3])
        ELSE MMN_callback(quantity, rxy, z, d[1], d[2], d[3])

\* for id_mod, axis in enumerate(self.axes[1:]): id_mod counts from 0, and
\* both the triple and the axis are read at id_mod
RECURSIVE MMN_Loop(_, _, _, _, _, _)
MMN_Loop(models, ax, id_mod, pt, quantity, total_sum) ==
    IF id_mod >= Len(ax) - 1 THEN total_sum
    ELSE MMN_Loop(models, ax, id_mod + 1, pt, quantity,
             FAdd(total_sum, MMN_Term(models, id_mod, ax[id_mod + 1], pt, quantity)))

\* MMNModel._evaluate_quantity, for a model holding at least one disk
MMN_evaluate_quantity(models, ax, pt, quantity) ==
    MMN_Loop(models, ax, 0, pt, quantity, MMN_Term(models, 0, ax[1], pt, quantity))

add_model(axis, a, b, M) ==
    /\ call' = [op |-> "MMNModel.add_model", axis |-> axis, a |-> a, b |-> b, M |-> M]
    /\ Len(axes) < MaxDiscs
    /\ discs' = discs \o <<a, b, M>>
    /\ axes' = Append(axes, axis)
    /\ result' = Returned(None, "")
    /\ UNCHANGED fitter

evaluate_quantity(quantity, pt) ==
    /\ call' = [op |-> "MMNModel.evaluate_" \o quantity, quantity |-> quantity, pt |-> pt]
    /\ result' = IF Len(axes) = 0 THEN Raised("ValueError", "")
                 ELSE Returned(Some(MMN_evaluate_quantity(discs, axes, pt, quantity)), "")
    /\ UNCHANGED <<discs, axes, fitter>>

\* MMNModel.__init__
InitMMN ==
    /\ discs = <<>>
    /\ axes = <<>>
    /\ call = [op |-> "MMNModel.__init__"]
    /\ result = Returned(None, "")
    /\ fitter = MMNFitter(2, 2, "potential", TRUE, TRUE)

NextMMN ==
    \/ \E d \in ModelArgs : add_model(d[1], d[2], d[3], d[4])
    \/ \E pt \in Points : evaluate_quantity("density", pt)
    \/ \E pt \in Points : evaluate_quantity("potential", pt)

SpecMMN == InitMMN /\ [][NextMMN]_vars

\* ======================================================= MNnModel claims
IsAddDisc(c) == c.op = "add_disc"

\* C1: add_disc with b < 0 fails with MNnError and leaves discs and axes as
\* they were before the call; with b = 0 and a + b >= 0 it does not fail and
\* the disc (a, b, M) and its axis are appended.
C1_AddDiscHeight ==
    [][/\ (IsAddDisc(call') /\ call'.b < 0) =>
            /\ result'.outcome = "raised"
            /\ result'.exc = "MNnError"
            /\ discs' = discs
            /\ axes' = axes
       /\ (IsAddDisc(call') /\ call'.b = 0 /\ call'.a + call'.b >= 0) =>
            /\ result'.outcome = "returned"
            /\ discs' = discs \o <<call'.a, call'.b, call'.M>>
            /\ axes' = Append(axes, call'.axis)]_vars

\* a rejected add_disc on a model that already holds a flat disc (b = 0)
C1_Witness ==
    /\ IsAddDisc(call)
    /\ call.b < 0
    /\ result.outcome = "raised"
    /\ Len(axes) >= 1
    /\ discs[2] = 0

RECURSIVE VecSum(_, _)
VecSum(f, n) ==
    IF n = 0 THEN <<Fin(0), Fin(0), Fin(0)>> ELSE VecAdd(VecSum(f, n - 1), f[n])

\* the model holding disc number i of (ds, ax) alone
AloneDiscs(ds, i) == DiscSlice(ds, i - 1)

Quantity(c) ==
    IF c.op = "evaluate_potential" THEN "potential"
    ELSE IF c.op = "evaluate_density" THEN "density"
    ELSE IF c.op = "evaluate_force" THEN "force"
    ELSE "none"

\* C5: for a model of two or more discs, evaluate_potential, evaluate_density
\* and evaluate_force at a point equal the sum, over every stored disc once,
\* of the quantity of the model holding that disc alone.
C5_Summation ==
    (Quantity(call) # "none" /\ Len(axes) >= 2) =>
        /\ result.outcome = "returned"
        /\ result.value =
             IF Quantity(call) = "force"
             THEN Some(VecSum([i \in 1..Len(axes) |->
                          MNn_force_sum(AloneDiscs(discs, i), <<axes[i]>>, call.pt)],
                          Len(axes)))
             ELSE Some(FSum([i \in 1..Len(axes) |->
                          evaluate_scalar_quantity(AloneDiscs(discs, i), <<axes[i]>>,
                                                   call.pt, Quantity(call))],
                          Len(axes)))

\* a density summed over two different discs on different axes, away from
\* the origin, with a finite non-zero value
C5_Witness ==
    /\ call.op = "evaluate_density"
    /\ Len(axes) >= 2
    /\ axes[1] # axes[2]
    /\ AloneDiscs(discs, 1) # AloneDiscs(discs, 2)
    /\ call.pt # <<0, 0, 0>>
    /\ result.outcome = "returned"
    /\ result.value.v.k = "fin"
    /\ result.value.v.v # 0

\* C6: is_positive_definite without max_range hands the calls, for each
\* axis it searches, the upper bound 10 x the largest scale a among the
\* discs not aligned with that axis.
C6_DerivedRangeUsed ==
    (call.op = "is_positive_definite" /\ ~call.max_range.some) =>
        \A i \in 1..Len(result.calls) :
            result.calls[i].upper =
                Some(10 * IPD_mr(discs, axes, result.calls[i].axis))

\* the range the claim has an axis searched over, 0 when the axis is skipped
SearchRange(max_range, axis) ==
    IF max_range.some THEN max_range.v ELSE 10 * IPD_mr(discs, axes, axis)

NegativeAlongAxis(max_range, axis) ==
    \E r \in 1..SearchRange(max_range, axis) :
        FNegative(evaluate_density_axis(discs, axes, r, axis))

\* C7: is_positive_definite returns false when the summed density along one
\* of the axes x, y, z is negative within the search range, and true
\* otherwise (true for a single ordinary disc a > 0, b > 0, M > 0).
C7_PositiveDefinite ==
    (call.op = "is_positive_definite" /\ Len(axes) >= 1) =>
        /\ result.outcome = "returned"
        /\ result.value = Some(~(\E axis \in Axes : NegativeAlongAxis(call.max_range, axis)))

\* the 4-tuple (axis, a, b, M) of an add_disc call
DiscOf(c) == <<c.axis, c.a, c.b, c.M>>

AddingOps == {"add_disc", "add_discs", "load_from_array"}

\* C12: every add_disc that succeeds puts its (axis, a, b, M) at the end of
\* what get_model returns, nothing but an adding call changes what get_model
\* returns, and get_model returns it.
C12_GetModelRoundTrip ==
    [][LET before == MNn_get_model(discs, axes)
           after == MNn_get_model(discs', axes')
       IN  /\ (IsAddDisc(call') /\ result'.outcome = "returned") =>
                 after = Append(before, DiscOf(call'))
           /\ (IsAddDisc(call') /\ result'.outcome = "raised") => after = before
           /\ call'.op \notin AddingOps => after = before
           /\ call'.op = "get_model" => result'.value = Some(after)]_vars

\* get_model on two different discs, the first with a # b
C12_Witness ==
    /\ call.op = "get_model"
    /\ result.outcome = "returned"
    /\ Len(result.value.v) = 2
    /\ result.value.v[1] # result.value.v[2]
    /\ result.value.v[1][2] # result.value.v[1][3]

IsPrefix(s, t) == Len(s) <= Len(t) /\ SubSeq(t, 1, Len(s)) = s

ReadingOps ==
    {"get_model", "modify_returned_list", "evaluate_potential", "evaluate_density",
     "evaluate_force", "is_positive_definite", "generate_dataset_meshgrid"}

\* C13: every step leaves the discs and the axes it found as a prefix of
\* the ones it leaves, and get_model, a change of the list it returned, the
\* evaluate_ calls, is_positive_definite and generate_dataset_meshgrid leave
\* them as they were.
C13_AppendOnly ==
    [][/\ IsPrefix(discs, discs')
       /\ IsPrefix(axes, axes')
       /\ call'.op \in ReadingOps => (discs' = discs /\ axes' = axes)]_vars

\* the list returned by get_model was changed and the model still holds
\* the disc the caller removed from it
C13_Witness ==
    /\ call.op = "modify_returned_list"
    /\ Len(axes) = 2
    /\ Len(result.value.v) < Len(axes)

PairedTuples(c) ==
    [i \in 1..Len(c.axes) |->
        <<c.axes[i], c.model[i][1], c.model[i][2], c.model[i][3]>>]

IsLoadFromArray(c) == c.op = "load_from_array" /\ Len(c.model) = Len(c.axes)

\* C16 as claimed: load_from_array with as many axes as triples succeeds for
\* every sequence of triples, and get_model then ends with the triples
\* paired with their axes, in order.
C16_AnyVectorLoads ==
    IsLoadFromArray(call) =>
        /\ result.outcome = "returned"
        /\ Len(axes) >= Len(call.axes)
        /\ SubSeq(MNn_get_model(discs, axes), Len(axes) - Len(call.axes) + 1, Len(axes))
             = PairedTuples(call)

\* C16 amended: load_from_array with as many axes as triples, every triple
\* with b >= 0, succeeds, and get_model then returns what it returned before
\* followed by the triples paired with their axes, in order.
C16_ValidVectorLoads ==
    [][(IsLoadFromArray(call') /\ \A i \in 1..Len(call'.model) : call'.model[i][2] >= 0) =>
          /\ result'.outcome = "returned"
          /\ MNn_get_model(discs', axes') =
               MNn_get_model(discs, axes) \o PairedTuples(call')]_vars

\* two triples with different a, b and M were loaded into an empty model
C16_Witness ==
    /\ IsLoadFromArray(call)
    /\ result.outcome = "returned"
    /\ Len(call.axes) = 2
    /\ Len(axes) = 2
    /\ call.model[2][1] # call.model[2][3]

IsBadGridCall(c) ==
    /\ c.op = "generate_dataset_meshgrid"
    /\ \/ c.quantity \notin {"density", "potential", "force"}
       \/ Len(c.xmin) # 3
       \/ Len(c.xmax) # 3
       \/ Len(c.nx) # 3

HasOtherScale(axis) ==
    \E j \in 1..Len(axes) : axes[j] # axis /\ discs[3 * j - 2] > 0

\* C20: is_positive_definite without max_range hands the minimizer no axis
\* for which no disc aligned with another axis has a > 0, so it returns
\* false only after a search along an axis that has one; when all discs
\* share one axis, that axis is not searched.
C20_AxisSkipped ==
    (call.op = "is_positive_definite" /\ ~call.max_range.some) =>
        /\ \A i \in 1..Len(result.calls) : HasOtherScale(result.calls[i].axis)
        /\ result.value = Some(FALSE) => Len(result.calls) >= 1
        /\ \A axis \in Axes :
              (\A j \in 1..Len(axes) : axes[j] = axis) =>
                  \A i \in 1..Len(result.calls) : result.calls[i].axis # axis

\* two discs that share the axis x: x was skipped and y was searched first
C20_Witness ==
    /\ call.op = "is_positive_definite"
    /\ ~call.max_range.some
    /\ Len(axes) = 2
    /\ axes[1] = "x"
    /\ axes[2] = "x"
    /\ Len(result.calls) >= 1
    /\ result.calls[1].axis = "y"

\* the number of tuples of values before the first one with b < 0
AcceptedBefore(values) ==
    LET bad == {i \in 1..Len(values) : values[i][3] < 0}
    IN  IF bad = {} THEN Len(values)
        ELSE (CHOOSE i \in bad : \A j \in bad : i <= j) - 1

\* C21: add_discs(values) appends the tuples of values in list order up to
\* the first one with b < 0; it raises MNnError when there is one, returns
\* otherwise; the tuples before the rejected one stay appended, none after
\* it is added, and discs keeps three entries per axis.
C21_AddDiscsNotAtomic ==
    [][call'.op = "add_discs" =>
          LET values == call'.values
              n == AcceptedBefore(values)
          IN  /\ result'.outcome = IF n < Len(values) THEN "raised" ELSE "returned"
              /\ n < Len(values) => result'.exc = "MNnError"
              /\ Len(axes') = Len(axes) + n
              /\ IsPrefix(axes, axes')
              /\ IsPrefix(discs, discs')
              /\ \A i \in 1..n :
                    /\ axes'[Len(axes) + i] = values[i][1]
                    /\ DiscSlice(discs', Len(axes) + i - 1) =
                         <<values[i][2], values[i][3], values[i][4]>>
              /\ Len(discs') = 3 * Len(axes')]_vars

\* add_discs raised at its second tuple and the first one is the last disc
\* of the model
C21_Witness ==
    /\ call.op = "add_discs"
    /\ result.outcome = "raised"
    /\ Len(call.values) = 2
    /\ AcceptedBefore(call.values) = 1
    /\ Len(axes) >= 1
    /\ axes[Len(axes)] = call.values[1][1]
    /\ DiscSlice(discs, Len(axes) - 1) =
         <<call.values[1][2], call.values[1][3], call.values[1][4]>>

\* ====================================================== MMNFitter claims
IsLoglikelihood == call.op = "loglikelihood" /\ fitter.axes.some

\* the disks of the vector handed to loglikelihood with a + b < 0
InvalidDisks ==
    {i \in 1..Len(fitter.axes.v) : call.models[3 * i - 2] + call.models[3 * i - 1] < 0}

\* C2: on a fitter with a model type and data, loglikelihood returns a
\* value for every vector of length ndim, with or without the
\* positive-definiteness check, and the value is -infinity when a disk of
\* the vector has a + b < 0.
C2_NeverRaises ==
    (IsLoglikelihood /\ fitter.data.some) =>
        /\ result.outcome = "returned"
        /\ InvalidDisks # {} => result.value = Some(Inf(-1))

\* C3: loglikelihood returns -infinity for every vector with a disk whose
\* a + b < 0, whatever the other disks, the fit type and check_DP, with or
\* without data loaded.
C3_InvalidDiskRejected ==
    (IsLoglikelihood /\ InvalidDisks # {}) =>
        /\ result.outcome = "returned"
        /\ result.value = Some(Inf(-1))

\* C4: with check_DP, loglikelihood on a vector whose disks all have
\* a + b >= 0 consults is_positive_definite of a model that holds every
\* disk of the vector with the fitter's axes; without check_DP it consults
\* nothing.
C4_CheckConsulted ==
    (IsLoglikelihood /\ InvalidDisks = {}) =>
        IF fitter.check_DP
        THEN result.calls = <<[op |-> "is_positive_definite",
                               models |-> call.models, axes |-> fitter.axes.v]>>
        ELSE result.calls = <<>>

IsFitData(c, r) == c.op = "fit_data" /\ r.outcome = "returned"

\* C8: a fit_data that returns stores and returns the steps of every walker
\* after the discarded prefix, walker after walker, and a second fit_data
\* that differs only in burnin keeps a different number of steps.
C8_BurninChoosesPrefix ==
    [][/\ IsFitData(call', result') =>
            /\ result'.value = Some(fitter'.samples)
            /\ \E nstp \in 0..fitter'.n_steps :
                   fitter'.samples =
                       Flatten(result'.calls[1].chain, nstp, fitter'.n_steps)
       /\ (IsFitData(call, result) /\ IsFitData(call', result')
             /\ call.burnin # call'.burnin) =>
            Len(fitter'.samples) # Len(fitter.samples)]_vars

\* C9: compute_quantiles with a triplet on a fitter whose samples are still
\* empty writes the warning and returns, verbose or not.
C9_WarnsWithoutSamples ==
    (call.op = "compute_quantiles" /\ Len(call.quantiles) = 3
       /\ Len(fitter.samples) = 0) =>
        /\ result.printed = "Warning fit_data"
        /\ result.outcome = "returned"

\* C10: compute_quantiles with a quantiles argument whose length is not 3
\* writes its warning, returns nothing, raises nothing, and leaves the
\* stored quantiles and samples as they were.
C10_NonTripletRejected ==
    [][(call'.op = "compute_quantiles" /\ Len(call'.quantiles) # 3) =>
          /\ result'.outcome = "returned"
          /\ result'.printed = "Warning triplet"
          /\ result'.value = None
          /\ fitter'.quantiles = fitter.quantiles
          /\ fitter'.samples = fitter.samples]_vars

\* a rejected non-triplet on a fitter that holds samples and their quantiles
C10_Witness ==
    /\ call.op = "compute_quantiles"
    /\ Len(call.quantiles) # 3
    /\ result.printed = "Warning triplet"
    /\ Len(fitter.samples) > 0
    /\ fitter.quantiles.some

\* the percentile q of parameter j over the stored samples, in units 1/100
SamplePercentile(j, q) == Percentile(Column(fitter.samples, j), q)

\* C11: compute_quantiles with a triplet (lo, mid, hi) on a non-empty
\* sample returns and stores, for every parameter in the order of the
\* vector, the row (P_mid, P_hi - P_mid, P_mid - P_lo); when all sample
\* vectors are the same v, the row of parameter j is (v[j], 0, 0).
C11_QuantileRows ==
    (call.op = "compute_quantiles" /\ Len(call.quantiles) = 3
       /\ Len(fitter.samples) > 0) =>
        LET q == call.quantiles
            rows == [j \in 1..Len(fitter.samples[1]) |->
                        <<SamplePercentile(j, q[2]),
                          SamplePercentile(j, q[3]) - SamplePercentile(j, q[2]),
                          SamplePercentile(j, q[2]) - SamplePercentile(j, q[1])>>]
        IN  /\ result.outcome = "returned"
            /\ result.value = Some(rows)
            /\ fitter.quantiles = Some(rows)
            /\ (\A i \in 1..Len(fitter.samples) : fitter.samples[i] = fitter.samples[1]) =>
                  \A j \in 1..Len(rows) : rows[j] = <<100 * fitter.samples[1][j], 0, 0>>

\* the attributes of the fitter the evaluations share
SharedState(f) ==
    <<f.models, f.axes, f.ndim, f.data, f.yerr, f.samples, f.quantiles, f.sampler>>

IsAxisAssignment(ax, nx, ny, nz) ==
    /\ Len(ax) = nx + ny + nz
    /\ \A i \in 1..Len(ax) :
          ax[i] = IF i <= nx THEN "x" ELSE IF i <= nx + ny THEN "y" ELSE "z"

\* C18: set_model_type(nx, ny, nz) sets ndim = 3(nx+ny+nz), a current
\* vector of that length and the axes x..y..z; maximum_likelihood, fit_data
\* and compute_quantiles keep ndim, the axes and the length of the vector;
\* a maximum_likelihood that returns has called the optimizer once and made
\* the vector it returned the current one.
C18_ModelTypeKept ==
    [][/\ call'.op = "set_model_type" =>
            /\ fitter'.ndim = 3 * (call'.nx + call'.ny + call'.nz)
            /\ Len(fitter'.models.v) = fitter'.ndim
            /\ IsAxisAssignment(fitter'.axes.v, call'.nx, call'.ny, call'.nz)
       /\ call'.op \in {"maximum_likelihood", "fit_data", "compute_quantiles"} =>
            /\ fitter'.ndim = fitter.ndim
            /\ fitter'.axes = fitter.axes
            /\ fitter'.models.some = fitter.models.some
            /\ fitter.models.some => Len(fitter'.models.v) = fitter.ndim
       /\ (call'.op = "maximum_likelihood" /\ result'.outcome = "returned") =>
            /\ Len(result'.calls) = 1
            /\ result'.calls[1].op = "minimize"
            /\ fitter'.models = Some(result'.calls[1].x)]_vars

\* maximum_likelihood stored an optimized vector for the axes x, z
C18_Witness ==
    /\ call.op = "maximum_likelihood"
    /\ result.outcome = "returned"
    /\ fitter.axes.v = <<"x", "z">>
    /\ fitter.models.v = <<1, 2, 1, -1, 2, 2>>
    /\ Len(fitter.samples) > 0

\* ======================================================= MMNModel claims
IsMMNEvaluate == call.op \in {"MMNModel.evaluate_density", "MMNModel.evaluate_potential"}

\* C19: for an MMNModel of two or more disks, the evaluated quantity is the
\* sum over every stored disk once, each with its own triple and the radius
\* and height of its own axis, and is what MMNFitter.sMN computes for the
\* same vector and axes at that point.
C19_EveryDiskOnce ==
    (IsMMNEvaluate /\ Len(axes) >= 2) =>
        /\ result.outcome = "returned"
        /\ result.value =
             Some(FSum([i \in 1..Len(axes) |->
                          MMN_Term(discs, i - 1, axes[i], call.pt, call.quantity)],
                       Len(axes)))
        /\ result.value =
             Some(sMN_sum(axes, discs, call.quantity, call.pt, 0, Fin(0)))

====
